---- MODULE Spec2Model ----
(***************************************************************************)
(* Sensor simulation engine of Grape_digit (src/src/simulator.py,          *)
(* src/src/tools.py): the datetime arithmetic the models rely on, the six   *)
(* sensor models with their noise draw, VirtualSensor.get_value, the batch  *)
(* driver generate_line_protocol_file and the streaming driver              *)
(* (write_to_influxdb under the schedule loop of __main__).                 *)
(*                                                                         *)
(* Numbers.  Sensor values are fixed-point integers in units of 10^-5.     *)
(* A time of day is held in units of 1/3600 hour (seconds), so that         *)
(* hour + minute/60 + second/3600 is exact.  math.cos and math.sin are      *)
(* evaluated on the angle rounded to the nearest degree, from a table of    *)
(* cos(d) * 10^4.  random.gauss draws from a finite pseudo-random stream    *)
(* of standard-normal samples given in hundredths of a standard deviation.  *)
(***************************************************************************)
EXTENDS Integers, Sequences, FiniteSets, TLC

VARIABLES
    pc,            \* which entry point runs, and where it stands
    clock,         \* the wall clock read by datetime.now(timezone.utc)
    rng,           \* state of the process-wide random source
    dt_arg,        \* the instant the caller holds and passes to its calls
    last,          \* the last direct call and what it returned or raised
    reference,     \* the first value returned under the zero-variance source
    current_time,  \* generate_line_protocol_file: loop variable
    end_time,      \* generate_line_protocol_file: end of the range
    file,          \* generate_line_protocol_file: the lines written so far
    step_draws,    \* noise draws made by the last timestep or tick
    next_run,      \* schedule: uptime second at which the job is next due
    uptime,        \* seconds slept by the schedule loop
    sink,          \* points the time-series store accepted
    tick_log       \* the ticks run so far: instant read, writes attempted

vars == <<pc, clock, rng, dt_arg, last, reference, current_time, end_time, file, step_draws,
          next_run, uptime, sink, tick_log>>

----------------------------------------------------------------------------
(* Bounds of the model. *)

\* wall-clock readings at start-up: 2024-01-01T00:00Z plus 0..MaxNowHalfHours half hours
MaxNowHalfHours == 6
\* seconds the schedule loop is followed for
MaxUptime == 11

----------------------------------------------------------------------------
(* datetime: a record of the civil fields and tzinfo, as Python holds it.   *)
(* tzinfo is <<>> for a naive datetime and <<m>> for                        *)
(* timezone(timedelta(minutes = m)).                                        *)

Unit == 10 ^ 5

datetime(y, mo, d, h, mi, s, us, tz) ==
    [year |-> y, month |-> mo, day |-> d, hour |-> h, minute |-> mi,
     second |-> s, microsecond |-> us, tzinfo |-> tz]

timezone_utc == <<0>>

TZ_UTC8 == <<8 * 60>>

IsLeap(y) == (y % 4 = 0) /\ ((y % 100 # 0) \/ (y % 400 = 0))

DaysInMonth(y, m) ==
    IF m = 2 THEN (IF IsLeap(y) THEN 29 ELSE 28)
    ELSE IF m \in {4, 6, 9, 11} THEN 30 ELSE 31

DaysBeforeMonthTable == <<0, 31, 59, 90, 120, 151, 181, 212, 243, 273, 304, 334>>

DaysBeforeMonth(y, m) ==
    DaysBeforeMonthTable[m] + (IF m > 2 /\ IsLeap(y) THEN 1 ELSE 0)

DaysBeforeYear(y) ==
    LET p == y - 1
    IN  p * 365 + (p \div 4) - (p \div 100) + (p \div 400)

\* date.toordinal: 0001-01-01 is day 1
Ymd2Ord(y, m, d) == DaysBeforeYear(y) + DaysBeforeMonth(y, m) + d

\* date.fromordinal
Ord2Ymd(ord) ==
    LET n0   == ord - 1
        n400 == n0 \div 146097
        r400 == n0 % 146097
        n100 == r400 \div 36524
        r100 == r400 % 36524
        n4   == r100 \div 1461
        r4   == r100 % 1461
        n1   == r4 \div 365
        n    == r4 % 365
        y    == n400 * 400 + 1 + n100 * 100 + n4 * 4 + n1
        leap == (n1 = 3) /\ ((n4 # 24) \/ (n100 = 3))
        m0   == (n + 50) \div 32
        pre0 == DaysBeforeMonthTable[m0] + (IF m0 > 2 /\ leap THEN 1 ELSE 0)
        m    == IF pre0 > n THEN m0 - 1 ELSE m0
        pre  == IF pre0 > n
                THEN pre0 - (IF m = 2 /\ leap THEN 29 ELSE DaysInMonth(2001, m))
                ELSE pre0
    IN  IF n1 = 4 \/ n100 = 4
        THEN [year |-> y - 1, month |-> 12, day |-> 31]
        ELSE [year |-> y, month |-> m, day |-> n - pre + 1]

\* dt.timetuple().tm_yday
tm_yday(dt) == DaysBeforeMonth(dt.year, dt.month) + dt.day

SecondOfDay(dt) == dt.hour * 3600 + dt.minute * 60 + dt.second

Ord2000 == Ymd2Ord(2000, 1, 1)

\* seconds of the civil fields since 2000-01-01T00:00:00, the offset not applied
CivilSeconds(dt) ==
    (Ymd2Ord(dt.year, dt.month, dt.day) - Ord2000) * 86400 + SecondOfDay(dt)

\* the datetime whose civil fields are `secs` seconds after 2000-01-01T00:00:00
FromCivilSeconds(secs, us, tz) ==
    LET ymd == Ord2Ymd(Ord2000 + (secs \div 86400))
        sod == secs % 86400
    IN  datetime(ymd.year, ymd.month, ymd.day,
                 sod \div 3600, (sod % 3600) \div 60, sod % 60, us, tz)

\* tzinfo.utcoffset(dt) in seconds, of an aware datetime
utcoffset(dt) == dt.tzinfo[1] * 60

\* seconds since 2000-01-01T00:00:00Z of an aware datetime
UtcSeconds(dt) == CivilSeconds(dt) - utcoffset(dt)

\* an addition that leaves the datetime where it was
AddSeconds_nothing(dt, s) == dt

\* dt + timedelta(seconds = s): arithmetic on the civil fields, tzinfo kept
AddSeconds(dt, s) == FromCivilSeconds(CivilSeconds(dt) + s, dt.microsecond, dt.tzinfo)

\* dt.astimezone(tz) of an aware datetime
astimezone(dt, tz) ==
    FromCivilSeconds(UtcSeconds(dt) + tz[1] * 60, dt.microsecond, tz)

\* a < b in place of a <= b
DtLt(a, b) ==
    \/ UtcSeconds(a) < UtcSeconds(b)
    \/ UtcSeconds(a) = UtcSeconds(b) /\ a.microsecond < b.microsecond

\* a <= b between aware datetimes: the instants are compared
DtLe(a, b) ==
    \/ UtcSeconds(a) < UtcSeconds(b)
    \/ UtcSeconds(a) = UtcSeconds(b) /\ a.microsecond <= b.microsecond

\* seconds from 1970-01-01T00:00:00Z to 2000-01-01T00:00:00Z
UnixAt2000 == (Ord2000 - Ymd2Ord(1970, 1, 1)) * 86400

\* int(dt.timestamp() * 1_000_000_000), held as <<seconds, nanoseconds>>
\* (the product does not fit a 32-bit integer)
timestamp_ns(dt) == <<UnixAt2000 + UtcSeconds(dt), dt.microsecond * 1000>>

----------------------------------------------------------------------------
(* src/src/tools.py *)

\* TRUE when the call raises ValueError
assert_timezone_aware(dt) == dt.tzinfo = <<>>

\* assert_china_time checking only that an offset is present
assert_china_time_any_offset(dt) == dt.tzinfo = <<>>

\* TRUE when the call raises ValueError
assert_china_time(dt) ==
    \/ dt.tzinfo = <<>>
    \/ utcoffset(dt) # TZ_UTC8[1] * 60

----------------------------------------------------------------------------
(* math.cos, math.sin and random.gauss *)

CosTable ==
    <<10000, 9998, 9994, 9986, 9976, 9962, 9945, 9925, 9903, 9877, 9848, 9816,
      9781, 9744, 9703, 9659, 9613, 9563, 9511, 9455, 9397, 9336, 9272, 9205,
      9135, 9063, 8988, 8910, 8829, 8746, 8660, 8572, 8480, 8387, 8290, 8192,
      8090, 7986, 7880, 7771, 7660, 7547, 7431, 7314, 7193, 7071, 6947, 6820,
      6691, 6561, 6428, 6293, 6157, 6018, 5878, 5736, 5592, 5446, 5299, 5150,
      5000, 4848, 4695, 4540, 4384, 4226, 4067, 3907, 3746, 3584, 3420, 3256,
      3090, 2924, 2756, 2588, 2419, 2250, 2079, 1908, 1736, 1564, 1392, 1219,
      1045, 872, 698, 523, 349, 175, 0>>

\* cos(d degrees) * 10^4, d in 0..359
CosDeg(d) ==
    IF d <= 90 THEN CosTable[d + 1]
    ELSE IF d <= 180 THEN -CosTable[180 - d + 1]
    ELSE IF d <= 270 THEN -CosTable[d - 180 + 1]
    ELSE CosTable[360 - d + 1]

\* the angle 2 * pi * num / den in degrees, rounded to the nearest, in 0..359
Deg(num, den) == ((720 * num + den) \div (2 * den)) % 360

\* math.cos(2 * math.pi * num / den) * 10^4
cos2pi(num, den) == CosDeg(Deg(num, den))

\* math.sin(2 * math.pi * num / den) * 10^4
sin2pi(num, den) == CosDeg((Deg(num, den) + 270) % 360)

\* standard-normal samples of the stream, in hundredths of a standard deviation
ZTable == <<0, 100, -100, 250, -250, 4000, -4000>>

\* the seeds the random source can start from: a position in the stream
RngStates == 0..(Len(ZTable) - 1)

\* the random source replaced by one of zero variance, as a test that needs
\* repeatable values does: every sample is the mean
ZeroNoise == 0 - 1

\* random.gauss drawing from the seeded stream even after it was replaced
gauss_still_seeded(mu, sigma, r) ==
    [sample |-> mu + (sigma \div 100) * ZTable[(r % Len(ZTable)) + 1],
     rng    |-> (r + 1) % Len(ZTable)]

\* random.gauss(mu, sigma): the sample drawn and the state of the source after it
gauss(mu, sigma, r) ==
    IF r = ZeroNoise
    THEN [sample |-> mu, rng |-> r]
    ELSE [sample |-> mu + (sigma \div 100) * ZTable[r + 1],
          rng    |-> (r + 1) % Len(ZTable)]

Max(a, b) == IF a >= b THEN a ELSE b

Min(a, b) == IF a <= b THEN a ELSE b

----------------------------------------------------------------------------
(* src/src/simulator.py: helpers and sensor models.                         *)
(* A call returns [raised, value, rng, draws]: whether it raised            *)
(* ValueError, the value returned, the random source after the call and     *)
(* the number of samples the call drew.                                     *)

Raised(r) == [raised |-> TRUE, value |-> 0, rng |-> r, draws |-> 0]

Returned(v, r, n) == [raised |-> FALSE, value |-> v, rng |-> r, draws |-> n]

\* time of day in units of 1/3600 hour
get_time_of_day(dt, r) ==
    IF assert_china_time(dt) THEN Raised(r)
    ELSE Returned(dt.hour * 3600 + dt.minute * 60 + dt.second, r, 0)

epoch == datetime(2000, 1, 1, 0, 0, 0, 0, timezone_utc)

\* (dt - epoch).total_seconds() / 3600 in units of 1/3600 hour; the
\* microseconds of dt - epoch are those of dt
hours_since_epoch(dt, r) ==
    IF assert_china_time(dt) THEN Raised(r)
    ELSE Returned(UtcSeconds(dt) - UtcSeconds(epoch), r, 0)

temperature_model(dt, r) ==
    IF assert_china_time(dt) THEN Raised(r)
    ELSE
    LET T_mean         == 10 * Unit
        A_diurnal      == 7
        t_max_diurnal  == 13
        A_seasonal     == 6
        t_max_seasonal == 215
        noise_std      == 1 * Unit
        day_of_year    == tm_yday(dt)
        time_of_day    == get_time_of_day(dt, r).value
        diurnal  == A_diurnal * cos2pi(time_of_day - t_max_diurnal * 3600, 24 * 3600) * 10
        seasonal == A_seasonal * cos2pi(4 * (day_of_year - t_max_seasonal), 1461) * 10
        noise    == gauss(0, noise_std, r)
    IN  Returned(T_mean + diurnal + seasonal + noise.sample, noise.rng, 1)

humidity_model(dt, r) ==
    IF assert_china_time(dt) THEN Raised(r)
    ELSE
    LET H_mean      == 60 * Unit
        A_diurnal_H == 20
        t_max_H     == 4
        noise_std   == 5 * Unit
        time_of_day == get_time_of_day(dt, r).value
        diurnal == A_diurnal_H * cos2pi(time_of_day - t_max_H * 3600, 24 * 3600) * 10
        noise   == gauss(0, noise_std, r)
    IN  Returned(H_mean + diurnal + noise.sample, noise.rng, 1)

\* light_model drawing its noise sample before the test for night
light_model_draws_first(dt, r) ==
    IF assert_china_time(dt) THEN Raised(r)
    ELSE
    LET time_of_day == get_time_of_day(dt, r).value
        light == (1000 * (10000 - cos2pi(time_of_day - 6 * 3600, 12 * 3600)) * 10) \div 2
        noise == gauss(0, 50 * Unit, r)
    IN  IF time_of_day < 6 * 3600 \/ time_of_day > 18 * 3600
        THEN Returned(0, noise.rng, 1)
        ELSE Returned(Max(0, light + noise.sample), noise.rng, 1)

\* light_model with the daylight curve over a 24 hour period
light_model_day_period(dt, r) ==
    IF assert_china_time(dt) THEN Raised(r)
    ELSE
    LET time_of_day == get_time_of_day(dt, r).value
        light == (1000 * (10000 - cos2pi(time_of_day - 6 * 3600, 24 * 3600)) * 10) \div 2
        noise == gauss(0, 50 * Unit, r)
    IN  IF time_of_day < 6 * 3600 \/ time_of_day > 18 * 3600
        THEN Returned(0, r, 0)
        ELSE Returned(Max(0, light + noise.sample), noise.rng, 1)

\* light_model with `and` for `or` in the test for night
light_model_and(dt, r) ==
    IF assert_china_time(dt) THEN Raised(r)
    ELSE
    LET time_of_day == get_time_of_day(dt, r).value
        light == (1000 * (10000 - cos2pi(time_of_day - 6 * 3600, 12 * 3600)) * 10) \div 2
        noise == gauss(0, 50 * Unit, r)
    IN  IF time_of_day < 6 * 3600 /\ time_of_day > 18 * 3600
        THEN Returned(0, r, 0)
        ELSE Returned(Max(0, light + noise.sample), noise.rng, 1)

light_model(dt, r) ==
    IF assert_china_time(dt) THEN Raised(r)
    ELSE
    LET max_light   == 1000
        sunrise     == 6
        sunset      == 18
        noise_std   == 50 * Unit
        time_of_day == get_time_of_day(dt, r).value
        total_daylight == sunset - sunrise
        light == (max_light * (10000 - cos2pi(time_of_day - sunrise * 3600,
                                              total_daylight * 3600)) * 10) \div 2
        noise == gauss(0, noise_std, r)
    IN  IF time_of_day < sunrise * 3600 \/ time_of_day > sunset * 3600
        THEN Returned(0, r, 0)
        ELSE Returned(Max(0, light + noise.sample), noise.rng, 1)

soil_temperature_model(dt, r) ==
    IF assert_china_time(dt) THEN Raised(r)
    ELSE
    LET T_mean_soil         == 15 * Unit
        A_diurnal_soil      == 5
        t_max_diurnal_air   == 14
        delta_t             == 3
        A_seasonal_soil     == 5
        t_max_seasonal_soil == 196
        noise_std           == 1 * Unit
        day_of_year == tm_yday(dt)
        time_of_day == get_time_of_day(dt, r).value
        diurnal  == A_diurnal_soil
                    * cos2pi(time_of_day - (t_max_diurnal_air + delta_t) * 3600, 24 * 3600) * 10
        seasonal == A_seasonal_soil
                    * cos2pi(4 * (day_of_year - t_max_seasonal_soil), 1461) * 10
        noise    == gauss(0, noise_std, r)
    IN  Returned(T_mean_soil + diurnal + seasonal + noise.sample, noise.rng, 1)

\* month -> mean wind speed, in tenths
\* the monthly means keyed from 0, so that each month reads its predecessor's
monthly_data_keyed_from_zero == <<70, 67, 69, 72, 75, 77, 79, 77, 73, 67, 64, 65>>

monthly_data == <<67, 69, 72, 75, 77, 79, 77, 73, 67, 64, 65, 70>>

\* wind_speed_model returning the sum without max(0, .)
wind_speed_model_unclamped(dt, r) ==
    IF assert_china_time(dt) THEN Raised(r)
    ELSE
    LET time_of_day == get_time_of_day(dt, r).value
        W_mean      == monthly_data[dt.month] * (Unit \div 10)
        diurnal     == 25 * sin2pi(time_of_day - 14 * 3600, 24 * 3600)
        random_component == gauss(0, 1 * Unit, r)
    IN  Returned(W_mean + diurnal + random_component.sample, random_component.rng, 1)

\* the body of wind_speed_model for a table of monthly means: table[month]
\* raises KeyError, before anything is drawn, when the table has no such key
wind_speed_with(table, dt, r) ==
    IF assert_china_time(dt) THEN Raised(r)
    ELSE
    LET A_diurnal_W == 25          \* 2.5, in tenths
        t_max_W     == 14
        noise_std   == 1 * Unit
        month       == dt.month
        time_of_day == get_time_of_day(dt, r).value
    IN  IF month \notin DOMAIN table THEN Raised(r)
        ELSE
        LET W_mean      == table[month] * (Unit \div 10)
            diurnal     == A_diurnal_W * sin2pi(time_of_day - t_max_W * 3600, 24 * 3600)
            random_component == gauss(0, noise_std, r)
        IN  Returned(Max(0, W_mean + diurnal + random_component.sample),
                     random_component.rng, 1)

wind_speed_model(dt, r) == wind_speed_with(monthly_data, dt, r)

\* regression coefficients beta0..beta4, in units of 10^-4
fitted_params == <<2843, -11, 4, 227, -722>>

soil_moisture_model(dt, r) ==
    IF assert_china_time(dt) THEN Raised(r)
    ELSE
    LET noise_std == Unit \div 20      \* 0.05
        t     == hours_since_epoch(dt, r).value
        beta0 == fitted_params[1]
        beta1 == fitted_params[2]
        beta2 == fitted_params[3]
        beta3 == fitted_params[4]
        beta4 == fitted_params[5]
        \* t / 24 turns: t is in seconds, one day is 86400 of them
        daily_cycle  == beta1 * cos2pi(t % 86400, 86400) + beta2 * sin2pi(t % 86400, 86400)
        \* t / (24 * 365.25) turns: one year is 31557600 seconds, 525960 minutes
        yearly_cycle == beta3 * cos2pi((t % 31557600) \div 60, 525960)
                        + beta4 * sin2pi((t % 31557600) \div 60, 525960)
        noise    == gauss(0, noise_std, r)
        moisture == beta0 * 10 + ((daily_cycle + yearly_cycle) \div 1000) + noise.sample
    IN  Returned(Max(0, Min(1 * Unit, moisture)), noise.rng, 1)

ModelNames == {"temperature_model", "humidity_model", "light_model",
               "soil_temperature_model", "wind_speed_model", "soil_moisture_model"}

\* the call model_func(dt)
model_func(name, dt, r) ==
    CASE name = "temperature_model"      -> temperature_model(dt, r)
      [] name = "humidity_model"         -> humidity_model(dt, r)
      [] name = "light_model"            -> light_model(dt, r)
      [] name = "soil_temperature_model" -> soil_temperature_model(dt, r)
      [] name = "wind_speed_model"       -> wind_speed_model(dt, r)
      [] name = "soil_moisture_model"    -> soil_moisture_model(dt, r)

\* get_value giving a naive instant the UTC+8 offset instead of raising
get_value_default_offset(name, dt, r) ==
    LET dt8 == IF dt.tzinfo = <<>> THEN [dt EXCEPT !.tzinfo = TZ_UTC8]
               ELSE astimezone(dt, TZ_UTC8)
    IN  [res |-> model_func(name, dt8, r), passed |-> <<dt8>>]

\* get_value relabelling dt as UTC+8, dt.replace(tzinfo=TZ_UTC8), for converting it
get_value_relabelled(name, dt, r) ==
    IF assert_timezone_aware(dt)
    THEN [res |-> Raised(r), passed |-> <<>>]
    ELSE LET dt8 == [dt EXCEPT !.tzinfo = TZ_UTC8]
         IN  [res |-> model_func(name, dt8, r), passed |-> <<dt8>>]

\* get_value handing the instant to the model as it came
get_value_no_conversion(name, dt, r) ==
    IF assert_timezone_aware(dt)
    THEN [res |-> Raised(r), passed |-> <<>>]
    ELSE [res |-> model_func(name, dt, r), passed |-> <<dt>>]

\* VirtualSensor.get_value: the result of the call, and in `passed` the
\* instants handed to the bound model function
get_value(name, dt, r) ==
    IF assert_timezone_aware(dt)
    THEN [res |-> Raised(r), passed |-> <<>>]
    ELSE LET dt8 == astimezone(dt, TZ_UTC8)
         IN  [res |-> model_func(name, dt8, r), passed |-> <<dt8>>]

\* the sensor list with light_intensity and humidity exchanged
sensors_exchanged ==
    <<[field |-> "temperature",      id |-> "v_temp_1",          model |-> "temperature_model"],
      [field |-> "light_intensity",  id |-> "v_light_1",         model |-> "light_model"],
      [field |-> "humidity",         id |-> "v_humidity_1",      model |-> "humidity_model"],
      [field |-> "soil_temperature", id |-> "v_soil_temp_1",     model |-> "soil_temperature_model"],
      [field |-> "wind_speed",       id |-> "v_wind_1",          model |-> "wind_speed_model"],
      [field |-> "soil_moisture",    id |-> "v_soil_moisture_1", model |-> "soil_moisture_model"]>>

\* the sensor list of both drivers, in registration order
sensors ==
    <<[field |-> "temperature",      id |-> "v_temp_1",          model |-> "temperature_model"],
      [field |-> "humidity",         id |-> "v_humidity_1",      model |-> "humidity_model"],
      [field |-> "light_intensity",  id |-> "v_light_1",         model |-> "light_model"],
      [field |-> "soil_temperature", id |-> "v_soil_temp_1",     model |-> "soil_temperature_model"],
      [field |-> "wind_speed",       id |-> "v_wind_1",          model |-> "wind_speed_model"],
      [field |-> "soil_moisture",    id |-> "v_soil_moisture_1", model |-> "soil_moisture_model"]>>

----------------------------------------------------------------------------
(* The inputs: instants a caller can hold, wall-clock readings, seeds. *)

CallDates == {<<2023, 12, 31>>, <<2024, 1, 1>>, <<2024, 7, 15>>}

CallTimes == {<<0, 0, 0>>, <<5, 59, 59>>, <<6, 0, 0>>, <<12, 0, 0>>, <<16, 0, 0>>,
              <<18, 0, 0>>, <<18, 0, 1>>, <<22, 0, 0>>}

CallMicros == {0, 500000}

\* naive, UTC, UTC+8 and UTC-5
CallZones == {<<>>, timezone_utc, TZ_UTC8, <<-300>>}

CallInstants ==
    {datetime(d[1], d[2], d[3], t[1], t[2], t[3], us, tz) :
        d \in CallDates, t \in CallTimes, us \in CallMicros, tz \in CallZones}

\* generate_line_protocol_file: start_time
start_time == datetime(2024, 1, 1, 0, 0, 0, 0, timezone_utc)

\* generate_line_protocol_file: interval, in seconds
interval == 60 * 60

\* a wall-clock reading after sunset in UTC+8: 19:00 there
EveningStart == datetime(2024, 1, 1, 11, 0, 0, 0, timezone_utc)

ClockStarts ==
    {FromCivilSeconds(CivilSeconds(start_time) + k * 1800, us, timezone_utc) :
        k \in 0..MaxNowHalfHours, us \in CallMicros}
    \cup {EveningStart}

NoCall == [op |-> "none", target |-> "none", raised |-> FALSE, value |-> 0,
           draws |-> 0, passed |-> <<>>]

NoReference == [op |-> "none", target |-> "none", value |-> 0, others |-> FALSE]

Init ==
    /\ pc \in {"call", "batch_begin", "main_begin"}
    /\ rng \in RngStates
    /\ IF pc = "call"
       THEN dt_arg \in CallInstants /\ clock = start_time
       ELSE dt_arg = start_time /\ clock \in ClockStarts
    /\ last = NoCall
    /\ reference = NoReference
    /\ current_time = start_time
    /\ end_time = start_time
    /\ file = <<>>
    /\ step_draws = 0
    /\ next_run = 0
    /\ uptime = 0
    /\ sink = <<>>
    /\ tick_log = <<>>

----------------------------------------------------------------------------
(* Direct calls, as the tests make them. *)

driver_vars == <<clock, current_time, end_time, file, step_draws, next_run,
                 uptime, sink, tick_log>>

\* The reference reading of a repeatability test: what the first call that
\* returned under the zero-variance source was, the value it returned, and
\* whether any other call has been made since.
Remember(op, name, res) ==
    IF reference.op = "none"
    THEN IF rng = ZeroNoise /\ ~res.raised
         THEN [op |-> op, target |-> name, value |-> res.value, others |-> FALSE]
         ELSE reference
    ELSE IF op = reference.op /\ name = reference.target
         THEN reference
         ELSE [reference EXCEPT !.others = TRUE]

\* sensor.get_value(dt_arg) on the sensor bound to model `name`
CallGetValue(name) ==
    /\ pc = "call"
    /\ LET g == get_value(name, dt_arg, rng)
       IN  /\ last' = [op |-> "get_value", target |-> name, raised |-> g.res.raised,
                       value |-> g.res.value, draws |-> g.res.draws, passed |-> g.passed]
           /\ rng' = g.res.rng
           /\ reference' = Remember("get_value", name, g.res)
    /\ UNCHANGED <<pc, dt_arg, driver_vars>>

\* name(dt_arg) for one of the six model functions
CallModel(name) ==
    /\ pc = "call"
    /\ LET m == model_func(name, dt_arg, rng)
       IN  /\ last' = [op |-> "model", target |-> name, raised |-> m.raised,
                       value |-> m.value, draws |-> m.draws, passed |-> <<>>]
           /\ rng' = m.rng
           /\ reference' = Remember("model", name, m)
    /\ UNCHANGED <<pc, dt_arg, driver_vars>>

\* get_time_of_day(dt_arg)
CallGetTimeOfDay ==
    /\ pc = "call"
    /\ LET h == get_time_of_day(dt_arg, rng)
       IN  /\ last' = [op |-> "helper", target |-> "get_time_of_day", raised |-> h.raised,
                       value |-> h.value, draws |-> h.draws, passed |-> <<>>]
           /\ rng' = h.rng
           /\ reference' = Remember("helper", "get_time_of_day", h)
    /\ UNCHANGED <<pc, dt_arg, driver_vars>>

\* hours_since_epoch(dt_arg)
CallHoursSinceEpoch ==
    /\ pc = "call"
    /\ LET h == hours_since_epoch(dt_arg, rng)
       IN  /\ last' = [op |-> "helper", target |-> "hours_since_epoch", raised |-> h.raised,
                       value |-> h.value, draws |-> h.draws, passed |-> <<>>]
           /\ rng' = h.rng
           /\ reference' = Remember("helper", "hours_since_epoch", h)
    /\ UNCHANGED <<pc, dt_arg, driver_vars>>

----------------------------------------------------------------------------
(* One pass of `for field_name, sensor in sensors` over the first n         *)
(* sensors at instant dt: the get_value results in order, the random        *)
(* source being threaded through the calls.                                 *)

\* the random source after the pass
RngAfter(evals, r) == IF evals = <<>> THEN r ELSE evals[Len(evals)].res.rng

RECURSIVE Evaluate(_, _, _)
Evaluate(n, dt, r) ==
    IF n = 0 THEN <<>>
    ELSE CHOOSE evals \in
            {Append(before, get_value(sensors[n].model, dt, RngAfter(before, r))) :
                before \in {Evaluate(n - 1, dt, r)}} : TRUE

RECURSIVE SumDraws(_)
SumDraws(evals) ==
    IF evals = <<>> THEN 0
    ELSE SumDraws(SubSeq(evals, 1, Len(evals) - 1)) + evals[Len(evals)].res.draws

\* index of the first call of the pass that raised, 0 when none did
FirstRaised(evals) ==
    IF \E i \in 1..Len(evals) : evals[i].res.raised
    THEN CHOOSE i \in 1..Len(evals) :
            evals[i].res.raised /\ \A j \in 1..(i - 1) : ~evals[j].res.raised
    ELSE 0

Abs(v) == IF v < 0 THEN -v ELSE v

\* f'{value:.6f}': the text, as its sign, its integer part and its six
\* fractional digits
Format6(v) ==
    [neg |-> v < 0, int |-> Abs(v) \div Unit, frac |-> (Abs(v) % Unit) * 10]

\* float(text) of such a text, in units of 10^-5
ParseFloat(text) ==
    (IF text.neg THEN -1 ELSE 1) * (text.int * Unit + (text.frac \div 10))

----------------------------------------------------------------------------
(* generate_line_protocol_file *)

Line(k, v, ts) ==
    [measurement |-> "env_data", sensor_id |-> sensors[k].id,
     field |-> sensors[k].field, value |-> Format6(v), timestamp |-> ts]

BatchBegin ==
    /\ pc = "batch_begin"
    /\ end_time' = clock
    /\ current_time' = start_time
    /\ file' = <<>>
    /\ pc' = "batch_loop"
    /\ UNCHANGED <<clock, rng, dt_arg, last, reference, step_draws, next_run, uptime, sink, tick_log>>

\* one iteration of the while loop; a get_value that raises ends the function
BatchStep ==
    /\ pc = "batch_loop"
    /\ DtLe(current_time, end_time)
    /\ \E evals \in {Evaluate(Len(sensors), current_time, rng)} :
       LET timestamp == timestamp_ns(current_time)
           bad       == FirstRaised(evals)
           done      == IF bad = 0 THEN Len(sensors) ELSE bad - 1
       IN  /\ file' = file \o [k \in 1..done |-> Line(k, evals[k].res.value, timestamp)]
           /\ rng' = RngAfter(SubSeq(evals, 1, IF bad = 0 THEN Len(sensors) ELSE bad), rng)
           /\ step_draws' = SumDraws(SubSeq(evals, 1, IF bad = 0 THEN Len(sensors) ELSE bad))
           /\ IF bad = 0
              THEN /\ current_time' = AddSeconds(current_time, interval)
                   /\ pc' = "batch_loop"
              ELSE /\ current_time' = current_time
                   /\ pc' = "crashed"
    /\ UNCHANGED <<clock, dt_arg, last, reference, end_time, next_run, uptime, sink, tick_log>>

\* the loop condition fails: the file is closed and the function returns
BatchExit ==
    /\ pc = "batch_loop"
    /\ ~DtLe(current_time, end_time)
    /\ pc' = "batch_done"
    /\ UNCHANGED <<clock, rng, dt_arg, last, reference, current_time, end_time, file, step_draws,
                   next_run, uptime, sink, tick_log>>

----------------------------------------------------------------------------
(* write_to_influxdb under the schedule loop of __main__ *)

\* float(f'{value:.6f}') in the point built for sensor k
Point(k, v, t) ==
    [measurement |-> "env_data", sensor_id |-> sensors[k].id,
     field |-> sensors[k].field, value |-> ParseFloat(Format6(v)), time |-> t]

\* schedule.every(5).seconds: the period of the job
every_seconds == 5

\* schedule.every(5).seconds.do(write_to_influxdb): the job is first due one period on
MainBegin ==
    /\ pc = "main_begin"
    /\ next_run' = uptime + every_seconds
    /\ pc' = "run_pending"
    /\ UNCHANGED <<clock, rng, dt_arg, last, reference, current_time, end_time, file, step_draws,
                   uptime, sink, tick_log>>

\* schedule.run_pending() with the job not yet due
RunPendingIdle ==
    /\ pc = "run_pending"
    /\ uptime < next_run
    /\ pc' = "sleep"
    /\ UNCHANGED <<clock, rng, dt_arg, last, reference, current_time, end_time, file, step_draws,
                   next_run, uptime, sink, tick_log>>

\* schedule.run_pending() with the job due: write_to_influxdb runs.  The
\* store accepts every write (reject = 0) or raises on the write of sensor
\* `reject`.  Nothing between write_api.write and the top of the script
\* catches an exception, so a write or a get_value that raises ends
\* write_to_influxdb, run_pending and the while loop.
Tick ==
    /\ pc = "run_pending"
    /\ uptime >= next_run
    /\ \E reject \in 0..Len(sensors), evals \in {Evaluate(Len(sensors), clock, rng)} :
         LET now       == clock
             bad       == FirstRaised(evals)
             stopG     == bad # 0 /\ (reject = 0 \/ bad <= reject)
             stopW     == reject # 0 /\ ~stopG
             calls     == IF stopG THEN bad ELSE IF stopW THEN reject ELSE Len(sensors)
             attempted == IF stopG THEN bad - 1 ELSE calls
             accepted  == IF stopW THEN reject - 1 ELSE attempted
         IN  /\ sink' = sink \o [k \in 1..accepted |-> Point(k, evals[k].res.value, now)]
             /\ tick_log' = Append(tick_log,
                    [time     |-> now,
                     writes   |-> [k \in 1..attempted |-> Point(k, evals[k].res.value, now)],
                     rejected |-> IF stopW THEN reject ELSE 0,
                     finished |-> ~(stopG \/ stopW)])
             /\ rng' = RngAfter(SubSeq(evals, 1, calls), rng)
             /\ step_draws' = SumDraws(SubSeq(evals, 1, calls))
             /\ IF stopG \/ stopW
                THEN /\ pc' = "crashed"
                     /\ next_run' = next_run
                ELSE /\ pc' = "sleep"
                     /\ next_run' = uptime + every_seconds
    /\ UNCHANGED <<clock, dt_arg, last, reference, current_time, end_time, file, uptime>>

\* time.sleep(1)
Sleep ==
    /\ pc = "sleep"
    /\ uptime < MaxUptime
    /\ uptime' = uptime + 1
    /\ clock' = AddSeconds(clock, 1)
    /\ pc' = "run_pending"
    /\ UNCHANGED <<rng, dt_arg, last, reference, current_time, end_time, file, step_draws,
                   next_run, sink, tick_log>>

\* The script has no stop flag and installs no signal handler: the one way to
\* ask the loop to stop is the interrupt signal, which Python raises as
\* KeyboardInterrupt in the main thread wherever it stands.  Nothing catches
\* it, so it ends the loop.  Here it arrives during time.sleep(1).
InterruptWaiting ==
    /\ pc = "sleep"
    /\ pc' = "stopped"
    /\ UNCHANGED <<clock, rng, dt_arg, last, reference, current_time, end_time, file, step_draws,
                   next_run, uptime, sink, tick_log>>

\* The interrupt arrives while write_to_influxdb runs, after the points of
\* the first `done` sensors were written and before the next sensor is read.
InterruptTick ==
    /\ pc = "run_pending"
    /\ uptime >= next_run
    /\ \E done \in 0..(Len(sensors) - 1), evals \in {Evaluate(Len(sensors), clock, rng)} :
         LET now    == clock
             writes == [k \in 1..done |-> Point(k, evals[k].res.value, now)]
         IN  /\ FirstRaised(evals) = 0
             /\ sink' = sink \o writes
             /\ tick_log' = Append(tick_log,
                    [time |-> now, writes |-> writes, rejected |-> 0, finished |-> FALSE])
             /\ rng' = RngAfter(SubSeq(evals, 1, done), rng)
             /\ step_draws' = SumDraws(SubSeq(evals, 1, done))
    /\ pc' = "stopped"
    /\ UNCHANGED <<clock, dt_arg, last, reference, current_time, end_time, file, next_run, uptime>>

----------------------------------------------------------------------------

Next ==
    \/ \E name \in ModelNames : CallGetValue(name)
    \/ \E name \in ModelNames : CallModel(name)
    \/ CallGetTimeOfDay
    \/ CallHoursSinceEpoch
    \/ BatchBegin
    \/ BatchStep
    \/ BatchExit
    \/ MainBegin
    \/ RunPendingIdle
    \/ Tick
    \/ Sleep
    \/ InterruptWaiting
    \/ InterruptTick

Spec == Init /\ [][Next]_vars

\* The helpers and models called on their own, over a year of instants and
\* with the random source either seeded or replaced by the zero-variance one.
PureDates == {<<2000, 1, 1>>} \cup {<<2024, m, 15>> : m \in 1..12}

PureTimes == {<<0, 0, 0>>, <<0, 30, 0>>, <<2, 0, 0>>, <<6, 0, 0>>, <<12, 0, 0>>,
              <<14, 0, 0>>, <<18, 0, 1>>, <<23, 59, 59>>}

PureZones == {timezone_utc, TZ_UTC8}

PureInstants ==
    {datetime(d[1], d[2], d[3], t[1], t[2], t[3], us, tz) :
        d \in PureDates, t \in PureTimes, us \in CallMicros, tz \in PureZones}

CallInit ==
    /\ pc = "call"
    /\ rng \in RngStates \cup {ZeroNoise}
    /\ dt_arg \in PureInstants
    /\ clock = start_time
    /\ last = NoCall
    /\ reference = NoReference
    /\ current_time = start_time
    /\ end_time = start_time
    /\ file = <<>>
    /\ step_draws = 0
    /\ next_run = 0
    /\ uptime = 0
    /\ sink = <<>>
    /\ tick_log = <<>>

CallNext ==
    \/ \E name \in ModelNames : CallGetValue(name)
    \/ \E name \in ModelNames : CallModel(name)
    \/ CallGetTimeOfDay
    \/ CallHoursSinceEpoch

CallSpec == CallInit /\ [][CallNext]_vars

\* A run of generate_line_protocol_file alone.  The interpreter keeps
\* running a function that can take a step: weak fairness of its steps.
BatchInit == Init /\ pc = "batch_begin"

BatchNext == BatchBegin \/ BatchStep \/ BatchExit

BatchSpec ==
    /\ BatchInit
    /\ [][BatchNext]_vars
    /\ WF_vars(BatchBegin) /\ WF_vars(BatchStep) /\ WF_vars(BatchExit)

----------------------------------------------------------------------------
(* Properties of the direct calls *)

Aware(dt) == dt.tzinfo # <<>>

\* second of the day on the UTC+8 civil clock of an aware instant, counted
\* from its UTC seconds; like get_time_of_day it reads hour, minute and
\* second, not the microsecond
SecondOfDayUtc8(dt) == (UtcSeconds(dt) + 8 * 3600) % 86400

IsNightUtc8(dt) == SecondOfDayUtc8(dt) < 6 * 3600 \/ SecondOfDayUtc8(dt) > 18 * 3600

\* C1: for every aware instant whose hour-of-day in UTC+8 is before 6 or
\* after 18, in whatever offset it is expressed and wherever the random
\* source stands, the light sensor's get_value returns exactly 0.
C1_LightZeroAtNight ==
    (last.op = "get_value" /\ last.target = "light_model"
        /\ Aware(dt_arg) /\ IsNightUtc8(dt_arg))
    => (~last.raised /\ last.value = 0)

\* 2023-12-31T16:00 UTC, midnight in UTC+8, asked of the light sensor
C1_Witness ==
    /\ dt_arg = datetime(2023, 12, 31, 16, 0, 0, 0, timezone_utc)
    /\ last.op = "get_value" /\ last.target = "light_model"
    /\ ~last.raised /\ last.value = 0

\* C2: get_value on a naive instant raises and returns no value; the model
\* function is not invoked, no sample is drawn, no offset is substituted.
C2_NaiveRejected ==
    (last.op = "get_value" /\ ~Aware(dt_arg))
    => (last.raised /\ last.passed = <<>> /\ last.draws = 0)

C2_Witness ==
    /\ last.op = "get_value" /\ last.target = "temperature_model"
    /\ ~Aware(dt_arg) /\ last.raised

\* C3 as claimed: get_value raises for an aware instant whose offset is not
\* UTC+8.
C3_ForeignOffsetRejected ==
    (last.op = "get_value" /\ Aware(dt_arg) /\ dt_arg.tzinfo # TZ_UTC8)
    => last.raised

\* C3 amended: get_value raises exactly when the instant is naive; an aware
\* instant of any offset is handed to the model as the same absolute
\* instant expressed in UTC+8, and the model's value is returned.
C3_OnlyNaiveRejected ==
    last.op = "get_value"
    => /\ last.raised <=> ~Aware(dt_arg)
       /\ Aware(dt_arg)
          => /\ Len(last.passed) = 1
             /\ last.passed[1].tzinfo = TZ_UTC8
             /\ UtcSeconds(last.passed[1]) = UtcSeconds(dt_arg)
             /\ last.passed[1].microsecond = dt_arg.microsecond

\* an instant expressed in UTC-5 is accepted and a value comes back
C3_Witness ==
    /\ last.op = "get_value" /\ last.target = "humidity_model"
    /\ dt_arg.tzinfo = <<-300>>
    /\ ~last.raised /\ last.draws = 1

\* C4: get_time_of_day, hours_since_epoch and the six model functions,
\* called directly, raise for an instant that is naive or whose offset is
\* not UTC+8, with no value computed and no sample drawn.
C4_DirectCallsRejectNonChina ==
    (last.op \in {"model", "helper"} /\ dt_arg.tzinfo # TZ_UTC8)
    => (last.raised /\ last.value = 0 /\ last.draws = 0)

\* the soil-moisture model called with an instant expressed in UTC
C4_Witness ==
    /\ last.op = "model" /\ last.target = "soil_moisture_model"
    /\ dt_arg.tzinfo = timezone_utc /\ last.raised

\* standard deviation of the noise of the three models that are not clamped
UnclampedStd(name) ==
    CASE name = "temperature_model"      -> 1 * Unit
      [] name = "humidity_model"         -> 5 * Unit
      [] name = "soil_temperature_model" -> 1 * Unit

\* the position the random source stood at before its last draw
RngBefore == (rng + Len(ZTable) - 1) % Len(ZTable)

\* C5: whatever sample is drawn, light and wind speed are >= 0 and soil
\* moisture lies in [0, 1]; temperature, humidity and soil temperature are
\* the noise-free value plus the sample, whatever its size.
C5_ValueRanges ==
    (last.op \in {"get_value", "model"} /\ ~last.raised)
    => LET dt8 == IF last.op = "get_value" THEN last.passed[1] ELSE dt_arg
       IN  /\ last.target \in {"light_model", "wind_speed_model"} => last.value >= 0
           /\ last.target = "soil_moisture_model" => (0 <= last.value /\ last.value <= Unit)
           /\ last.target \in {"temperature_model", "humidity_model", "soil_temperature_model"}
              => last.value = model_func(last.target, dt8, 0).value
                              + (UnclampedStd(last.target) \div 100) * ZTable[RngBefore + 1]

\* a sample of -40 standard deviations: wind speed comes back as 0 and the
\* same sample takes the temperature below -20 degrees
C5_Witness ==
    \/ /\ last.op = "model" /\ last.target = "wind_speed_model"
       /\ ~last.raised /\ last.value = 0 /\ ZTable[RngBefore + 1] = -4000
    \/ /\ last.op = "model" /\ last.target = "temperature_model"
       /\ ~last.raised /\ last.value < -20 * Unit

----------------------------------------------------------------------------
(* Properties of the batch driver *)

\* number of instants start + k * interval in the closed range [start, end]
StepsInRange(start, end) == ((UtcSeconds(end) - UtcSeconds(start)) \div interval) + 1

\* the timestamp of the k-th instant of the range, k from 0
StepTimestamp(k) == <<UnixAt2000 + UtcSeconds(start_time) + k * interval, 0>>

\* C6: when the batch has run over [start, end], the instants visited are
\* exactly start + k * step for k = 0 .. floor((end - start) / step), end
\* included when it falls on a step, with one line per sensor at each:
\* (floor((end - start) / step) + 1) * 6 lines.
C6_BatchLineCount ==
    pc = "batch_done"
    => LET n == StepsInRange(start_time, end_time)
       IN  /\ Len(file) = n * 6
           /\ \A k \in 0..(n - 1) :
                Cardinality({i \in 1..Len(file) : file[i].timestamp = StepTimestamp(k)}) = 6
           /\ \A i \in 1..Len(file) : \E k \in 0..(n - 1) : file[i].timestamp = StepTimestamp(k)

\* the range 00:00 to 02:00 at the 60-minute step: 3 timesteps, 18 lines
C6_Witness ==
    /\ pc = "batch_done"
    /\ end_time = datetime(2024, 1, 1, 2, 0, 0, 0, timezone_utc)
    /\ Len(file) = 18

RegistrationOrder ==
    <<"temperature", "humidity", "light_intensity", "soil_temperature",
      "wind_speed", "soil_moisture">>

RegisteredIds ==
    <<"v_temp_1", "v_humidity_1", "v_light_1", "v_soil_temp_1", "v_wind_1",
      "v_soil_moisture_1">>

TimestampLess(a, b) == a[1] < b[1] \/ (a[1] = b[1] /\ a[2] < b[2])

\* the timestep line i of the output belongs to, from 0
TimestepOf(i) == (i - 1) \div 6

\* C7: at every moment of the batch, the lines of one timestep stand in
\* registration order and carry one timestamp, the lines of a later
\* timestep come after those of an earlier one, and the timestamps of
\* successive timesteps increase strictly.
C7_BatchOrder ==
    /\ \A i \in 1..Len(file) :
         /\ file[i].field = RegistrationOrder[((i - 1) % 6) + 1]
         /\ file[i].sensor_id = RegisteredIds[((i - 1) % 6) + 1]
    /\ \A i, j \in 1..Len(file) :
         /\ TimestepOf(i) = TimestepOf(j) => file[i].timestamp = file[j].timestamp
         /\ TimestepOf(i) < TimestepOf(j) => TimestampLess(file[i].timestamp, file[j].timestamp)

\* two timesteps written, the loop still running
C7_Witness ==
    /\ pc = "batch_loop"
    /\ Len(file) = 12
    /\ TimestampLess(file[6].timestamp, file[7].timestamp)

\* C10: the end of the range is fixed before the loop starts, every
\* iteration moves the current instant forward, and the loop is left
\* after finitely many iterations, once current > end.
C10_BatchTerminates ==
    /\ [][pc = "batch_loop" => end_time' = end_time]_vars
    /\ [][BatchStep => UtcSeconds(current_time') = UtcSeconds(current_time) + interval]_vars
    /\ [](pc = "batch_done" => ~DtLe(current_time, end_time))
    /\ (pc = "batch_begin" ~> pc = "batch_done")

\* four iterations made and the function returned
C10_Witness ==
    /\ pc = "batch_done"
    /\ Len(file) = 24
    /\ UtcSeconds(current_time) = UtcSeconds(start_time) + 4 * interval

----------------------------------------------------------------------------
(* Properties of the streaming driver *)

\* C8: a write the store rejects during a tick does not end the driver:
\* the schedule loop is still running after the tick.
C8_DriverSurvivesRejectedWrite ==
    \A i \in 1..Len(tick_log) :
        tick_log[i].rejected # 0 => pc \in {"run_pending", "sleep"}

\* C9: every tick invokes the write once for each of the six sensors, in
\* registration order, each point carrying the instant read at the start of
\* the tick, also when one of the writes is rejected.
C9_SixWritesPerTick ==
    \A i \in 1..Len(tick_log) :
        /\ Len(tick_log[i].writes) = 6
        /\ \A k \in 1..Len(tick_log[i].writes) :
             /\ tick_log[i].writes[k].field = RegistrationOrder[k]
             /\ tick_log[i].writes[k].time = tick_log[i].time

----------------------------------------------------------------------------
(* Properties of the helpers and models called on their own *)

\* the epoch written on the UTC+8 civil clock: 2000-01-01T00:00+08:00
EpochUtc8 == datetime(2000, 1, 1, 0, 0, 0, 0, TZ_UTC8)

\* C11: hours_since_epoch(dt) is the time elapsed from 2000-01-01T00:00+08:00
\* to dt, in hours and not truncated to whole hours: 0 at the epoch itself,
\* 0.5 half an hour later (values in units of 1/3600 hour).
C11_HoursSinceCanonicalEpoch ==
    (last.op = "helper" /\ last.target = "hours_since_epoch" /\ ~last.raised)
    => last.value = UtcSeconds(dt_arg) - UtcSeconds(EpochUtc8)

\* the instant the model function of the last call was given
ModelInstant == IF last.op = "get_value" THEN last.passed[1] ELSE dt_arg

\* the last call evaluated model `name` and returned
Evaluated(name) ==
    /\ last.op \in {"get_value", "model"}
    /\ last.target = name
    /\ ~last.raised

\* the last call was made on an instant its callee accepts: an aware one for
\* get_value, a UTC+8 one for a model function
ValidCall(name) ==
    /\ last.target = name
    /\ \/ last.op = "get_value" /\ Aware(dt_arg)
       \/ last.op = "model" /\ dt_arg.tzinfo = TZ_UTC8

\* the monthly mean wind speeds as configured, in tenths
ConfiguredMonthlyMean ==
    [m \in 1..12 |->
        CASE m = 1 -> 67 [] m = 2 -> 69 [] m = 3 -> 72 [] m = 4 -> 75
          [] m = 5 -> 77 [] m = 6 -> 79 [] m = 7 -> 77 [] m = 8 -> 73
          [] m = 9 -> 67 [] m = 10 -> 64 [] m = 11 -> 65 [] m = 12 -> 70]

\* the hours of the day at which the diurnal term of the wind speed is zero
DiurnalZero == SecondOfDay(ModelInstant) \in {2 * 3600, 14 * 3600}

\* C12: the month lookup of the wind speed is total and exact. A call on a
\* valid instant never fails; its month is in 1..12 and has an entry in the
\* table; when the diurnal and noise terms are zero the value is the mean
\* configured for that month (7.7 for July); and over a table without that
\* month's entry the same call fails instead of returning a value.
C12_WindMonthLookup ==
    ValidCall("wind_speed_model") =>
        /\ ~last.raised
        /\ ModelInstant.month \in 1..12
        /\ ModelInstant.month \in DOMAIN monthly_data
        /\ (rng = ZeroNoise /\ DiurnalZero)
            => last.value = ConfiguredMonthlyMean[ModelInstant.month] * (Unit \div 10)
        /\ LET lacking == [m \in (DOMAIN monthly_data) \ {ModelInstant.month}
                              |-> monthly_data[m]]
           IN  wind_speed_with(lacking, ModelInstant, rng).raised

\* a July call with zero diurnal and noise terms returned 7.7
C12_Witness ==
    /\ ValidCall("wind_speed_model")
    /\ rng = ZeroNoise
    /\ DiurnalZero
    /\ ModelInstant.month = 7
    /\ last.value = 77 * (Unit \div 10)

\* C13: with sunrise 6, sunset 18 and the noise zero, the light intensity is 0
\* at hour 0 of the UTC+8 day, max_light (1000) at hour 12, and at no hour
\* above max_light.
C13_LightCurve ==
    (Evaluated("light_model") /\ rng = ZeroNoise) =>
        /\ SecondOfDay(ModelInstant) = 0 => last.value = 0
        /\ SecondOfDay(ModelInstant) = 12 * 3600 => last.value = 1000 * Unit
        /\ last.value <= 1000 * Unit

\* a noiseless light reading was taken at noon and returned 1000
C13_Witness ==
    /\ Evaluated("light_model")
    /\ rng = ZeroNoise
    /\ SecondOfDay(ModelInstant) = 12 * 3600
    /\ last.value = 1000 * Unit

----------------------------------------------------------------------------
(* Properties of the streaming driver's stop *)

\* C15: the streaming driver stops cleanly between ticks: a stop requested
\* while it waits ends the loop without another tick being started, and a
\* tick in progress is never cut off part-way, so every tick of a stopped
\* driver has written all of its points.
C15_CleanStop ==
    pc = "stopped" =>
        \A i \in 1..Len(tick_log) :
            /\ tick_log[i].finished
            /\ Len(tick_log[i].writes) = Len(sensors)

----------------------------------------------------------------------------
(* Properties of the noise draws *)

\* the instant of the last timestep the batch loop completed
LastTimestep == AddSeconds(current_time, 0 - interval)

\* the batch loop has completed a timestep
TimestepDone == pc \in {"batch_loop", "batch_done"} /\ file # <<>>

\* the streaming driver's last tick ran to its end
TickDone == tick_log # <<>> /\ tick_log[Len(tick_log)].finished

\* C16 as claimed: every sensor evaluation that returns has drawn exactly one
\* noise sample, at any hour, so a batch timestep and a streaming tick each
\* consume exactly six draws.
C16_OneDrawAtAnyHour ==
    /\ (last.op \in {"get_value", "model"} /\ ~last.raised) => last.draws = 1
    /\ TimestepDone => step_draws = 6
    /\ TickDone => step_draws = 6

\* C16, amended: every sensor evaluation that returns has drawn exactly one
\* noise sample, except the light model before 6 or after 18 in UTC+8, which
\* returns 0 without drawing; a batch timestep and a streaming tick consume
\* six draws when their instant is in UTC+8 daylight and five when it is not.
C16_OneDrawExceptLightAtNight ==
    /\ (last.op \in {"get_value", "model"} /\ ~last.raised) =>
            last.draws = IF last.target = "light_model" /\ IsNightUtc8(ModelInstant)
                         THEN 0 ELSE 1
    /\ TimestepDone => step_draws = IF IsNightUtc8(LastTimestep) THEN 5 ELSE 6
    /\ TickDone =>
            step_draws = IF IsNightUtc8(tick_log[Len(tick_log)].time) THEN 5 ELSE 6

\* the batch has completed the timestep of 19:00 UTC+8 on five draws
C16_Witness ==
    /\ TimestepDone
    /\ IsNightUtc8(LastTimestep)
    /\ step_draws = 5

----------------------------------------------------------------------------
(* Properties of the conversion to UTC+8 *)

\* the offsets an aware instant can be re-expressed in
AwareZones == {tz \in CallZones : tz # <<>>}

\* the position the random source stood at before the last call
RngPrior == (rng + Len(ZTable) - last.draws) % Len(ZTable)

\* C17: get_value does not depend on the offset its instant is expressed in.
\* The model is given the same absolute instant on the UTC+8 civil clock, so
\* the hour of day, day of year and month it reads are those of UTC+8; the
\* same instant expressed in any other offset, under the same noise sample,
\* gives the same value; the caller's instant is not changed by the call, and
\* the points of a tick carry the instant the driver read, still in UTC.
C17_OffsetInvariance ==
    /\ [](  /\ (last.op = "get_value" /\ Aware(dt_arg)) =>
                /\ ~last.raised
                /\ last.passed[1].tzinfo = TZ_UTC8
                /\ last.passed[1].microsecond = dt_arg.microsecond
                /\ UtcSeconds(last.passed[1]) = UtcSeconds(dt_arg)
                /\ CivilSeconds(last.passed[1]) = UtcSeconds(dt_arg) + 8 * 3600
                /\ SecondOfDay(last.passed[1]) = SecondOfDayUtc8(dt_arg)
                /\ \A tz \in AwareZones :
                     get_value(last.target, astimezone(dt_arg, tz), RngPrior).res.value
                        = last.value
            /\ \A i \in 1..Len(tick_log) :
                /\ tick_log[i].time.tzinfo = timezone_utc
                /\ \A k \in 1..Len(tick_log[i].writes) :
                     tick_log[i].writes[k].time = tick_log[i].time )
    /\ [][dt_arg' = dt_arg]_vars

\* a sensor read at 2023-12-31T16:00-05:00: the model was given an instant of
\* January, 2024-01-01T05:00+08:00
C17_Witness ==
    /\ last.op = "get_value"
    /\ ~last.raised
    /\ dt_arg.tzinfo = <<0 - 300>>
    /\ dt_arg.month = 12
    /\ last.passed[1].month = 1
    /\ last.passed[1].hour = 5

====
